---- MODULE Spec2Model ----
(***************************************************************************)
(* A model of deepdoc/parser/odt_parser.py (RAGFlowOdtParser): the cell    *)
(* classifier blockType, the table linearization                           *)
(* __compose_table_content, the list formatter __extract_list_text and     *)
(* the dispatch of __call__ over the elements of the document body.        *)
(*                                                                         *)
(* A Python string is a sequence of characters; a character is a TLA+      *)
(* string.  An ASCII character stands for itself; the characters the       *)
(* source uses outside ASCII are named: "nian" U+5E74, "yue" U+6708,       *)
(* "ri" U+65E5, "ji" U+5B63, "du" U+5EA6, "di" U+7B2C, "yi" U+4E00,        *)
(* "er" U+4E8C, "san" U+4E09, "si" U+56DB, "yen" U+FFE5, "flp" U+FF08,     *)
(* "frp" U+FF09, "bullet" U+2022.                                          *)
(***************************************************************************)
EXTENDS Integers, Sequences, FiniteSets, TLC

VARIABLES
    pc,             \* position of the call being modelled
    text,           \* blockType: the string b
    tok,            \* the answer of rag_tokenizer for a non-empty string
    ty,             \* blockType: the returned tag
    table_element,  \* __call__: the rows (each a sequence of cell texts) of a table:table
    table_content,  \* __call__: what __extract_table_content returned
    tbls,           \* __call__: parsed tables
    df,             \* __compose_table_content: its argument, each cell as str() gives it
    hdrows,         \* __compose_table_content: hdrows when it returns
    lines,          \* __compose_table_content: lines when it returns
    list_element,   \* __call__: a text:list element
    list_texts,     \* __call__: what __extract_list_text returned
    secs            \* __call__: parsed contents

vars == <<pc, text, tok, ty, table_element, table_content, tbls, df, hdrows,
          lines, list_element, list_texts, secs>>

----------------------------------------------------------------------------
(* Bounds of the model. *)

MaxLen == 4

MaxTokens == 13

MaxRows == 4

MaxCols == 4

MaxItems == 2

MaxKids == 2

----------------------------------------------------------------------------
(* Characters and character classes of the patterns of blockType. *)

Digit == {"0", "1", "2", "3", "4", "5", "6", "7", "8", "9"}

Upper == {"A", "B", "C", "D", "E", "F", "G", "H", "I", "J", "K", "L", "M",
          "N", "O", "P", "Q", "R", "S", "T", "U", "V", "W", "X", "Y", "Z"}

Lower == {"a", "b", "c", "d", "e", "f", "g", "h", "i", "j", "k", "l", "m",
          "n", "o", "p", "q", "r", "s", "t", "u", "v", "w", "x", "y", "z"}

\* str.strip() removes these
Whitespace == {" ", "\n", "\t"}

\* every character of the model; "." of a pattern matches all but the newline
Chars ==
    Digit \cup Upper \cup Lower \cup Whitespace \cup
    {"nian", "yue", "ri", "ji", "du", "di", "yi", "er", "san", "si", "yen",
     "flp", "frp", "bullet"} \cup
    {".", ",", "+", "%", "/", "-", "_", "~", "'", "$", "<", ">", "(", ")",
     ":", ";", "?", "#"}

AnyChar == Chars \ {"\n"}

\* one element of a pattern: a character class repeated lo..hi times
\* (many: no upper limit)
Rep(cls, lo, hi) == [cls |-> cls, lo |-> lo, hi |-> hi, many |-> FALSE]
One(cls) == Rep(cls, 1, 1)
Star(cls) == [cls |-> cls, lo |-> 0, hi |-> 0, many |-> TRUE]
Plus(cls) == [cls |-> cls, lo |-> 1, hi |-> 1, many |-> TRUE]

\* (20|19)[0-9]{2}: the two alternatives
Year ==
    { <<One({"2"}), One({"0"}), Rep(Digit, 2, 2)>>,
      <<One({"1"}), One({"9"}), Rep(Digit, 2, 2)>> }

YearThen(rest) == { y \o rest : y \in Year }

Quarter == {"yi", "er", "san", "si", "1", "2", "3", "4"}

\* the list `pattern`: each entry the alternatives of a regular expression,
\* all anchored ^...$, and its tag
pattern == <<
    [re |-> YearThen(<<One({"nian", "/", "-"}), Rep(Digit, 1, 2),
                       One({"yue", "/", "-"}), Rep(Digit, 1, 2),
                       Star({"ri"})>>), n |-> "Dt"],
    [re |-> YearThen(<<One({"nian"})>>), n |-> "Dt"],
    [re |-> YearThen(<<One({"nian", "/", "-"}), Rep(Digit, 1, 2),
                       Star({"yue"})>>), n |-> "Dt"],
    [re |-> { <<Rep(Digit, 1, 2), One({"yue", "/", "-"}), Rep(Digit, 1, 2),
                Star({"ri"})>> }, n |-> "Dt"],
    [re |-> { <<Star({"di"}), One(Quarter), One({"ji"}), One({"du"})>> },
     n |-> "Dt"],
    [re |-> YearThen(<<Star({"nian"}), One(Quarter), One({"ji"}),
                       One({"du"})>>), n |-> "Dt"],
    [re |-> YearThen(<<One({"A", "B", "C", "D", "E"})>>), n |-> "DT"],
    [re |-> { <<Plus(Digit \cup {".", ",", "+", "%", "/", " ", "-"})>> },
     n |-> "Nu"],
    [re |-> { <<Plus(Digit \cup Upper \cup {"/", ".", "_", "~", "-"})>> },
     n |-> "Ca"],
    [re |-> { <<Star(Upper), Plus(Lower \cup {"'", " ", "-"})>> },
     n |-> "En"],
    [re |-> { <<Plus(Digit \cup {".", ",", "+", "-"}),
                Plus(Digit \cup Upper \cup Lower \cup
                     {"/", "$", "yen", "%", "<", ">", "flp", "frp", "(", ")",
                      "'", " ", "-"})>> }, n |-> "NE"],
    [re |-> { <<One(AnyChar)>> }, n |-> "Sg"]
>>

Min(a, b) == IF a < b THEN a ELSE b

\* "$": the end of the string, or just before a newline that ends it
AtEnd(s, pos) ==
    \/ pos = Len(s) + 1
    \/ pos = Len(s) /\ s[pos] = "\n"

\* the elements items[k..] match s from position pos up to "$"
RECURSIVE MatchFrom(_, _, _, _)
MatchFrom(items, k, s, pos) ==
    IF k > Len(items)
    THEN AtEnd(s, pos)
    ELSE LET it == items[k]
             left == Len(s) - pos + 1
             top == IF it.many THEN left ELSE Min(it.hi, left)
         IN \E n \in it.lo .. top :
               /\ \A q \in pos .. (pos + n - 1) : s[q] \in it.cls
               /\ MatchFrom(items, k + 1, s, pos + n)

\* re.search(p, b) for a pattern anchored at "^"
search(re, b) == \E alt \in re : MatchFrom(alt, 1, b, 1)

\* the tokenizer's answer for b, as far as blockType reads it: the number of
\* tokens longer than one character, and whether the tag of the first is "nr"
NoTokens == [n |-> 0, nr |-> FALSE]

tokenize(b) == IF b = <<>> THEN NoTokens ELSE tok

\* blockType after no pattern matched
TokenType(tks) ==
    IF tks.n > 3
    THEN (IF tks.n < 12 THEN "Tx" ELSE "Lx")
    ELSE IF tks.n = 1 /\ tks.nr THEN "Nr" ELSE "Ot"

\* the loop "for p, n in pattern" from entry k on
RECURSIVE FirstMatchFrom(_, _)
FirstMatchFrom(b, k) ==
    IF k > Len(pattern) THEN 0
    ELSE IF search(pattern[k].re, b) THEN k
    ELSE FirstMatchFrom(b, k + 1)

\* a scan that keeps the last matching entry
LastMatch(b) ==
    IF \E k \in 1..Len(pattern) : search(pattern[k].re, b)
    THEN CHOOSE k \in 1..Len(pattern) :
            /\ search(pattern[k].re, b)
            /\ \A j \in (k + 1)..Len(pattern) : ~search(pattern[j].re, b)
    ELSE 0

\* the scan, worked out once for the strings of at most one character
ShortMatch ==
    [b \in {<<>>} \cup { <<c>> : c \in Chars } |-> FirstMatchFrom(b, 1)]

FirstMatch(b) ==
    IF Len(b) <= 1 /\ b \in DOMAIN ShortMatch
    THEN ShortMatch[b]
    ELSE FirstMatchFrom(b, 1)

blockType(b) ==
    LET m == FirstMatch(b)
    IN IF m # 0 THEN pattern[m].n ELSE TokenType(tokenize(b))

----------------------------------------------------------------------------
(* Strings. *)

\* str.strip()
RECURSIVE lstrip(_)
lstrip(s) ==
    IF s # <<>> /\ Head(s) \in Whitespace THEN lstrip(Tail(s)) ELSE s

RECURSIVE rstrip(_)
rstrip(s) ==
    IF s # <<>> /\ s[Len(s)] \in Whitespace
    THEN rstrip(SubSeq(s, 1, Len(s) - 1))
    ELSE s

strip(s) == rstrip(lstrip(s))

\* sep.join(parts)
RECURSIVE join(_, _)
join(sep, parts) ==
    IF parts = <<>> THEN <<>>
    ELSE IF Len(parts) = 1 THEN parts[1]
    ELSE parts[1] \o sep \o join(sep, Tail(parts))

\* str(None): what a DataFrame holds where a row was shorter than the widest
NoneStr == <<"N", "o", "n", "e">>

----------------------------------------------------------------------------
(* __extract_table_content and __compose_table_content.  Rows and columns
   are numbered from 0, as in the source. *)

Max(a, b) == IF a > b THEN a ELSE b

RECURSIVE Widest(_)
Widest(rows) ==
    IF rows = <<>> THEN 0 ELSE Max(Len(Head(rows)), Widest(Tail(rows)))

\* pd.DataFrame(rows), every cell as str() gives it
DataFrame(rows) ==
    LET w == Widest(rows)
    IN [r \in 1..Len(rows) |->
           [c \in 1..w |-> IF c <= Len(rows[r]) THEN rows[r][c] ELSE NoneStr]]

\* str(df.iloc[i, j])
Cell(frame, i, j) == frame[i + 1][j + 1]

\* len(df.iloc[i, :])
Width(frame, i) == Len(frame[i + 1])

\* range(a, b) as a sequence
Range(a, b) == [k \in 1..(b - a) |-> a + k - 1]

\* the keys of Counter(seq), in the order they were first counted
RECURSIVE CounterKeys(_)
CounterKeys(seq) ==
    IF seq = <<>> THEN <<>>
    ELSE LET before == CounterKeys(SubSeq(seq, 1, Len(seq) - 1))
             x == seq[Len(seq)]
         IN IF \E k \in 1..Len(before) : before[k] = x
            THEN before
            ELSE Append(before, x)

\* Counter(seq).items()
CounterItems(seq) ==
    LET keys == CounterKeys(seq)
    IN [k \in 1..Len(keys) |->
           <<keys[k], Cardinality({q \in 1..Len(seq) : seq[q] = keys[k]})>>]

\* a maximum that a later entry of the same count replaces
RECURSIVE MaxFromLast(_, _, _)
MaxFromLast(items, k, best) ==
    IF k > Len(items) THEN best
    ELSE MaxFromLast(items, k + 1,
                     IF items[k][2] >= best[2] THEN items[k] ELSE best)

\* max(items, key=lambda x: x[1]) from entry k on, best being the maximum so
\* far: a later entry replaces it only when greater
RECURSIVE MaxFrom(_, _, _)
MaxFrom(items, k, best) ==
    IF k > Len(items) THEN best
    ELSE MaxFrom(items, k + 1, IF items[k][2] > best[2] THEN items[k] ELSE best)

\* max(Counter(seq).items(), key=lambda x: x[1])[0]
MostCommon(seq) ==
    LET items == CounterItems(seq)
    IN MaxFrom(items, 2, items[1])[1]

\* blockType(str(df.iloc[i, j])) of every cell
CellTypes(frame) ==
    [r \in 1..Len(frame) |-> [c \in 1..Len(frame[r]) |-> blockType(frame[r][c])]]

\* the tags of the rows r .. len(df) - 1, row after row
RECURSIVE TypesFrom(_, _)
TypesFrom(types, r) ==
    IF r >= Len(types) THEN <<>>
    ELSE types[r + 1] \o TypesFrom(types, r + 1)

MaxType(types) == MostCommon(TypesFrom(types, 1))

\* tys of row r
RowType(types, r) == MostCommon(types[r + 1])

IsHeaderRow(tys, mt) == tys # mt

\* hdrows once the loop over the rows has ended
HeaderRows(types) ==
    LET mt == MaxType(types)
    IN <<0>> \o
       (IF mt = "Nu"
        THEN SelectSeq(Range(1, Len(types)),
                       LAMBDA r : IsHeaderRow(RowType(types, r), mt))
        ELSE <<>>)

InSeq(x, seq) == \E k \in 1..Len(seq) : seq[k] = x

\* hr without the while loop: every header row above
EveryRowAbove(hr, t) == hr

\* the while loop over hr, t counted from 1
RECURSIVE NearestRun(_, _)
NearestRun(hr, t) ==
    IF t <= 1 THEN hr
    ELSE IF hr[t] - hr[t - 1] > 1 THEN SubSeq(hr, t, Len(hr))
    ELSE NearestRun(hr, t - 1)

\* hr of row i
HeaderOffsets(hd, i) ==
    LET above == SelectSeq([k \in 1..Len(hd) |-> hd[k] - i],
                           LAMBDA r : r < 0)
    IN NearestRun(above, Len(above))

\* the list t of column j before it is joined
RECURSIVE HeaderValues(_, _, _, _)
HeaderValues(frame, i, j, hr) ==
    IF hr = <<>> THEN <<>>
    ELSE LET t == HeaderValues(frame, i, j, SubSeq(hr, 1, Len(hr) - 1))
             x == strip(Cell(frame, i + hr[Len(hr)], j))
         IN IF InSeq(x, t) THEN t ELSE Append(t, x)

\* headers[j] of row i
Header(frame, i, j, hr) ==
    LET t == join(<<",">>, HeaderValues(frame, i, j, hr))
    IN IF t # <<>> THEN t \o <<":", " ">> ELSE t

\* the line of row i
RowLine(frame, i, hd) ==
    LET hr == HeaderOffsets(hd, i)
        filled == SelectSeq(Range(0, Width(frame, i)),
                            LAMBDA j : Cell(frame, i, j) # <<>>)
        cells == [k \in 1..Len(filled) |->
                     Header(frame, i, filled[k], hr) \o Cell(frame, i, filled[k])]
    IN join(<<";">>, cells)

\* the rows the loop over range(1, len(df)) does not skip
DataRows(frame, hd) ==
    SelectSeq(Range(1, Len(frame)), LAMBDA i : ~InSeq(i, hd))

\* lines once that loop has ended
Lines(frame, hd) ==
    LET rows == DataRows(frame, hd)
    IN [k \in 1..Len(rows) |-> RowLine(frame, rows[k], hd)]

ColumnLimit == 3

\* the lines kept apart only from the column after the limit on
ReturnedLate(colnm, ls) ==
    IF colnm > ColumnLimit + 1 THEN ls ELSE <<join(<<"\n">>, ls)>>

\* the lines kept apart from the limit on
ReturnedEarly(colnm, ls) ==
    IF colnm >= ColumnLimit THEN ls ELSE <<join(<<"\n">>, ls)>>

\* what __compose_table_content returns at its end
Returned(colnm, ls) ==
    IF colnm > ColumnLimit THEN ls ELSE <<join(<<"\n">>, ls)>>

\* __compose_table_content(df): its locals when it returns, and the result
compose_table_content(frame) ==
    IF Len(frame) < 2
    THEN [hdrows |-> <<>>, lines |-> <<>>, result |-> <<>>]
    ELSE LET hd == HeaderRows(CellTypes(frame))
             ls == Lines(frame, hd)
         IN [hdrows |-> hd, lines |-> ls,
             result |-> Returned(Width(frame, 0), ls)]

\* the rows __extract_table_content keeps: those with a cell, cells stripped
ExtractRows(element) ==
    LET kept == SelectSeq(element, LAMBDA row : row # <<>>)
    IN [r \in 1..Len(kept) |-> [c \in 1..Len(kept[r]) |-> strip(kept[r][c])]]

\* __extract_table_content(table_element): the DataFrame it built (none when
\* no row was kept) and what __compose_table_content did with it
extract_table_content(element) ==
    LET rows == ExtractRows(element)
    IN IF rows = <<>>
       THEN [df |-> <<>>, hdrows |-> <<>>, lines |-> <<>>, result |-> <<>>]
       ELSE [df |-> DataFrame(rows)] @@ compose_table_content(DataFrame(rows))

\* the append without its test
AppendAlways(tables, content) == Append(tables, content)

\* tbls after "if table_content: tbls.append(table_content)"
AppendTable(tables, content) ==
    IF content # <<>> THEN Append(tables, content) ELSE tables

----------------------------------------------------------------------------
(* __extract_list_text.  A text:list element is a record of its style name
   and its text:list-item children; a text:list-item is a record of its
   children, each a text:p (its text) or a text:list. *)

Paragraph(t) == [tag |-> "p", text |-> t]
ListItem(kids) == [tag |-> "list-item", kids |-> kids]
List(style, items) == [tag |-> "list", style |-> style, items |-> items]

Capitals == <<"A", "B", "C", "D", "E", "F", "G", "H", "I", "J", "K", "L", "M",
              "N", "O", "P", "Q", "R", "S", "T", "U", "V", "W", "X", "Y", "Z">>

Smalls == <<"a", "b", "c", "d", "e", "f", "g", "h", "i", "j", "k", "l", "m",
            "n", "o", "p", "q", "r", "s", "t", "u", "v", "w", "x", "y", "z">>

\* str.lower()
lower(s) ==
    [q \in 1..Len(s) |->
        IF s[q] \in Upper
        THEN Smalls[CHOOSE k \in 1..Len(Capitals) : Capitals[k] = s[q]]
        ELSE s[q]]

\* s.find(sub) >= 0, sub in s
Contains(s, sub) ==
    \E q \in 0..(Len(s) - Len(sub)) : SubSeq(s, q + 1, q + Len(sub)) = sub

\* the test of the style name of a list for being a numbered one
IsNumbered(style) == Contains(lower(style), <<"n", "u", "m">>)

\* concatenation of a sequence of sequences
RECURSIVE Flatten(_)
Flatten(seqs) == IF seqs = <<>> THEN <<>> ELSE Head(seqs) \o Flatten(Tail(seqs))

\* findall('.//text:list-item'): the list-item elements below an element at
\* any depth, in document order
RECURSIVE ItemsBelow(_)
ItemsBelow(list) ==
    Flatten([k \in 1..Len(list.items) |->
        <<list.items[k]>> \o
        Flatten([c \in 1..Len(list.items[k].kids) |->
            IF list.items[k].kids[c].tag = "list"
            THEN ItemsBelow(list.items[k].kids[c])
            ELSE <<>>])])

\* str(n) of a number n >= 0
RECURSIVE str(_)
str(n) ==
    LET digits == <<"0", "1", "2", "3", "4", "5", "6", "7", "8", "9">>
    IN IF n < 10 THEN <<digits[n + 1]>>
       ELSE str(n \div 10) \o <<digits[(n % 10) + 1]>>

\* '  ' * level
RECURSIVE Indent(_)
Indent(level) == IF level <= 0 THEN <<>> ELSE <<" ", " ">> \o Indent(level - 1)

RECURSIVE extract_list_text(_, _, _)
RECURSIVE ItemTexts(_, _)
RECURSIVE FormatFrom(_, _, _, _, _)

\* item_texts of one list-item
ItemTexts(item, level) ==
    Flatten([c \in 1..Len(item.kids) |->
        IF item.kids[c].tag = "p"
        THEN (IF strip(item.kids[c].text) # <<>>
              THEN <<strip(item.kids[c].text)>>
              ELSE <<>>)
        ELSE extract_list_text(item.kids[c], level + 1,
                               IsNumbered(item.kids[c].style))])

\* the lines of one item that has texts
ItemLines(item_texts, level, bullet) ==
    <<Indent(level) \o bullet \o <<" ">> \o item_texts[1]>> \o
    [k \in 1..(Len(item_texts) - 1) |->
        Indent(level) \o <<" ", " ">> \o item_texts[k + 1]]

\* the loop over the items from the k-th on, item_num as it stands
FormatFrom(items, k, level, is_ordered, item_num) ==
    IF k > Len(items) THEN <<>>
    ELSE LET item_texts == ItemTexts(items[k], level)
         IN IF item_texts = <<>>
            THEN FormatFrom(items, k + 1, level, is_ordered, item_num)
            ELSE ItemLines(item_texts, level,
                           IF is_ordered THEN str(item_num) \o <<".">>
                           ELSE <<"bullet">>)
                 \o FormatFrom(items, k + 1, level, is_ordered,
                               IF is_ordered THEN item_num + 1 ELSE item_num)

extract_list_text(list, level, is_ordered) ==
    FormatFrom(ItemsBelow(list), 1, level, is_ordered, 1)

\* secs after the loop over list_texts
AppendTexts(sections, texts) ==
    sections \o
    [k \in 1..Len(SelectSeq(texts, LAMBDA t : strip(t) # <<>>)) |->
        <<SelectSeq(texts, LAMBDA t : strip(t) # <<>>)[k], "None">>]

----------------------------------------------------------------------------
(* blockType applied to one string. *)

Alphabet == {"2", "0", "4", "-", "A", "a", "nian"}

\* strings of the rules the alphabet does not reach
Samples == {
    <<"2", "0", "2", "4", "nian">>,
    <<"2", "0", "2", "4", "A">>,
    <<"2", "0", "2", "4", "-", "0", "4">>,
    <<"2", "0", "2", "4", "-", "0", "4", "-", "0", "2">>,
    <<"1", "9", "9", "9", "nian", "1", "2", "yue", "3", "1", "ri">>,
    <<"3", "yue", "5", "ri">>,
    <<"di", "3", "ji", "du">>,
    <<"2", "0", "2", "4", "nian", "yi", "ji", "du">>,
    <<"1", "2", "%">>,
    <<"1", "2", "k", "g">>,
    <<"Y", "e", "a", "r">>,
    <<"?">>,
    <<"a", "\n">>,
    <<"a", "?">>
}

Texts == UNION { [1..n -> Alphabet] : n \in 0..MaxLen } \cup Samples

TokenAnswers == [n : 0..MaxTokens, nr : BOOLEAN]

InitClassify ==
    /\ pc = "classify"
    /\ text \in Texts
    /\ tok = NoTokens
    /\ ty = ""
    /\ table_element = <<>>
    /\ table_content = <<>>
    /\ tbls = <<>>
    /\ df = <<>>
    /\ hdrows = <<>>
    /\ lines = <<>>
    /\ list_element = <<>>
    /\ list_texts = <<>>
    /\ secs = <<>>

\* blockType(b) returning from the loop over `pattern`
ClassifyByPattern ==
    /\ pc = "classify"
    /\ FirstMatch(text) # 0
    /\ ty' = blockType(text)
    /\ pc' = "done"
    /\ UNCHANGED <<text, tok, table_element, table_content, tbls, df, hdrows,
                   lines, list_element, list_texts, secs>>

\* blockType(b) after the loop: the tokenizer answers, the tag follows
ClassifyByTokens ==
    /\ pc = "classify"
    /\ FirstMatch(text) = 0
    /\ \E a \in TokenAnswers :
          /\ tok' = a
          /\ ty' = TokenType(IF text = <<>> THEN NoTokens ELSE a)
    /\ pc' = "done"
    /\ UNCHANGED <<text, table_element, table_content, tbls, df, hdrows,
                   lines, list_element, list_texts, secs>>

NextClassify == ClassifyByPattern \/ ClassifyByTokens

SpecClassify == InitClassify /\ [][NextClassify]_vars

----------------------------------------------------------------------------
(* __call__ on a body that holds one table:table element. *)

Empty == <<>>
Number == <<"1">>
Word == <<"x">>

\* the pairs of cell texts a row repeats: all over the three texts but a
\* number or nothing before a word
RowPairs ==
    { <<Number, Number>>, <<Number, Empty>>, <<Word, Number>>,
      <<Word, Word>>, <<Word, Empty>>, <<Empty, Number>>, <<Empty, Empty>> }

\* a row of c cells that repeats a pair of cell texts
TiledRow(pair, c) == [j \in 1..c |-> IF j % 2 = 1 THEN pair[1] ELSE pair[2]]

\* the table of Len(pairs) rows of c cells each (c = 0: table-row elements
\* without a table-cell)
TiledTable(pairs, c) == [i \in 1..Len(pairs) |-> TiledRow(pairs[i], c)]

YearRevenue == <<
    << <<"Y", "e", "a", "r">>, <<"R", "e", "v", "e", "n", "u", "e">> >>,
    << <<"2", "0", "2", "3">>, <<"1", "0", "0">> >>,
    << <<"2", "0", "2", "4">>, <<"1", "2", "0">> >> >>

\* cell texts with white space around them, a row without a cell, a row
\* shorter than the others
Untidy == <<
    << <<" ", "Y", "e", "a", "r", "\n">>, <<"R", "e", "v", "e", "n", "u", "e">> >>,
    << >>,
    << <<"2", "0", "2", "3">>, <<"\t", "1", "0", "0">> >>,
    << <<"2", "0", "2", "4">> >> >>

IsTable(t) ==
    \/ \E r \in 0..MaxRows, c \in 0..MaxCols :
          \E pairs \in [1..r -> RowPairs] : t = TiledTable(pairs, c)
    \/ t \in {YearRevenue, Untidy}

InitTable ==
    /\ pc = "table"
    /\ IsTable(table_element)
    /\ text = <<>>
    /\ tok = NoTokens
    /\ ty = ""
    /\ table_content = <<>>
    /\ tbls = <<>>
    /\ df = <<>>
    /\ hdrows = <<>>
    /\ lines = <<>>
    /\ list_element = <<>>
    /\ list_texts = <<>>
    /\ secs = <<>>

\* the branch tag == 'table:table' of the loop over the body
TableElement ==
    /\ pc = "table"
    /\ LET call == extract_table_content(table_element)
       IN /\ df' = call.df
          /\ hdrows' = call.hdrows
          /\ lines' = call.lines
          /\ table_content' = call.result
          /\ tbls' = AppendTable(tbls, call.result)
    /\ pc' = "done"
    /\ UNCHANGED <<text, tok, ty, table_element, list_element, list_texts,
                   secs>>

NextTable == TableElement

SpecTable == InitTable /\ [][NextTable]_vars

----------------------------------------------------------------------------
(* __call__ on a body that holds one text:list element. *)

Styles == { <<"L", "1">>, <<"N", "u", "m", "b", "e", "r", "i", "n", "g">> }

\* the sequences over S of at most n members
SeqsUpTo(S, n) == UNION { [1..k -> S] : k \in 0..n }

\* lists below the top: items without a text or with the text "B"
InnerLists ==
    { List(style, items) :
        style \in Styles,
        items \in SeqsUpTo({ListItem(<<>>), ListItem(<<Paragraph(<<"B">>)>>)},
                           MaxItems) }

\* the children of an item of the top list
Kids(inner) == {Paragraph(<<" ">>), Paragraph(<<"A">>)} \cup inner

IsList(l) ==
    \E style \in Styles, n \in 0..MaxItems :
        \E kids \in [1..n -> SeqsUpTo(Kids(InnerLists), MaxKids)] :
            l = List(style, [k \in 1..n |-> ListItem(kids[k])])

InitList ==
    /\ pc = "list"
    /\ IsList(list_element)
    /\ text = <<>>
    /\ tok = NoTokens
    /\ ty = ""
    /\ table_element = <<>>
    /\ table_content = <<>>
    /\ tbls = <<>>
    /\ df = <<>>
    /\ hdrows = <<>>
    /\ lines = <<>>
    /\ list_texts = <<>>
    /\ secs = <<>>

\* the branch tag == 'text:list' of the loop over the body
ListElement ==
    /\ pc = "list"
    /\ list_texts' = extract_list_text(list_element, 0,
                                       IsNumbered(list_element.style))
    /\ secs' = AppendTexts(secs, list_texts')
    /\ pc' = "done"
    /\ UNCHANGED <<text, tok, ty, table_element, table_content, tbls, df,
                   hdrows, lines, list_element>>

NextList == ListElement

SpecList == InitList /\ [][NextList]_vars

----------------------------------------------------------------------------
(* What the claims about a table speak of, read off the state after the
   call. *)

\* the rows of the table element that hold a cell: the rows of the grid
GridRows == { k \in 1..Len(table_element) : table_element[k] # <<>> }

HeaderSet == { hdrows[k] : k \in 1..Len(hdrows) }

DataRowSet == (1..(Len(df) - 1)) \ HeaderSet

\* the k-th member of a set of numbers, counted from 1
Nth(S, k) == CHOOSE x \in S : Cardinality({ y \in S : y < x }) = k - 1

Composed == pc = "done" /\ Len(df) >= 2

\* the line of every data row, in row order
DataLines ==
    [k \in 1..Cardinality(DataRowSet) |->
        RowLine(df, Nth(DataRowSet, k), hdrows)]

\* a string cut at its newlines
RECURSIVE SplitLines(_)
SplitLines(s) ==
    IF \A q \in 1..Len(s) : s[q] # "\n" THEN <<s>>
    ELSE LET q == CHOOSE q \in 1..Len(s) :
                     s[q] = "\n" /\ \A p \in 1..(q - 1) : s[p] # "\n"
         IN <<SubSeq(s, 1, q - 1)>> \o SplitLines(SubSeq(s, q + 1, Len(s)))

\* how often x occurs in seq, and where first
Count(seq, x) == Cardinality({ q \in 1..Len(seq) : seq[q] = x })
FirstAt(seq, x) == CHOOSE q \in 1..Len(seq) :
                      seq[q] = x /\ \A p \in 1..(q - 1) : seq[p] # x

\* the majority of seq, a tie going to the one met first
Majority(seq) ==
    CHOOSE t \in { seq[q] : q \in 1..Len(seq) } :
        \A u \in { seq[q] : q \in 1..Len(seq) } \ {t} :
            \/ Count(seq, t) > Count(seq, u)
            \/ Count(seq, t) = Count(seq, u) /\ FirstAt(seq, t) < FirstAt(seq, u)

\* the tags of row r of df, and of all the cells of rows 1 .. N-1 row by row
TagsOfRow(r) == [c \in 1..Len(df[r + 1]) |-> blockType(df[r + 1][c])]
TagsBelowTop ==
    LET w == Len(df[1])
    IN [k \in 1..((Len(df) - 1) * w) |->
           blockType(df[2 + ((k - 1) \div w)][1 + ((k - 1) % w)])]

Dominant == Majority(TagsBelowTop)

(* C1: a grid of at least 2 rows and more than 3 columns gives one entry per
   data row (a row from 1 on that is no header row), in row order, each the
   line of that row, and no entry is several lines merged by newlines. *)
C1_WideOnePerDataRow ==
    (Composed /\ Len(df[1]) > 3) =>
        /\ Len(table_content) = Cardinality(DataRowSet)
        /\ table_content = DataLines
        /\ \A k \in 1..Len(table_content) :
              \A q \in 1..Len(table_content[k]) : table_content[k][q] # "\n"

C1_Witness ==
    /\ Composed
    /\ Len(df[1]) > 3
    /\ Len(table_content) >= 2
    /\ Len(hdrows) >= 2

(* C2 as stated: when every row from 1 on is a header row, whatever the
   number of columns, the linearization is empty and no table block is
   appended. *)
C2_NoDataRowsNoBlock ==
    (Composed /\ DataRowSet = {}) => (table_content = <<>> /\ tbls = <<>>)

(* C3: a grid of 0 or 1 rows gives the empty sequence, and no table block is
   appended for it. *)
C3_FewRowsEmpty ==
    (pc = "done" /\ Cardinality(GridRows) <= 1) =>
        (table_content = <<>> /\ tbls = <<>>)

\* a grid of one row: the DataFrame was built and composed to nothing
C3_Witness ==
    /\ pc = "done"
    /\ Cardinality(GridRows) = 1
    /\ Len(df) = 1
    /\ table_content = <<>>
    /\ tbls = <<>>

YearRevenueBlock ==
    <<"Y", "e", "a", "r", ":", " ", "2", "0", "2", "3", ";",
      "R", "e", "v", "e", "n", "u", "e", ":", " ", "1", "0", "0", "\n",
      "Y", "e", "a", "r", ":", " ", "2", "0", "2", "4", ";",
      "R", "e", "v", "e", "n", "u", "e", ":", " ", "1", "2", "0">>

(* C7: a grid of at least 2 rows and at most 3 columns gives exactly one
   block, the lines of the data rows in row order with a newline between
   them; the Year/Revenue grid gives
   "Year: 2023;Revenue: 100\nYear: 2024;Revenue: 120". *)
C7_NarrowOneBlock ==
    (Composed /\ Len(df[1]) <= 3) =>
        /\ Len(table_content) = 1
        /\ IF DataRowSet = {}
           THEN table_content[1] = <<>>
           ELSE SplitLines(table_content[1]) = DataLines
        /\ table_element = YearRevenue => table_content = <<YearRevenueBlock>>

C7_Witness ==
    /\ Composed
    /\ Len(df[1]) = 3
    /\ Len(table_content) = 1
    /\ Len(SplitLines(table_content[1])) >= 2
    /\ Len(hdrows) >= 2

(* C8: for a grid of at least 2 rows the header rows start with row 0 and
   depend on the grid alone: a row r >= 1 is one exactly when the dominant
   tag (the majority over the cells of rows 1 .. N-1, a tie going to the tag
   met first) is "Nu" and the majority tag of row r is not "Nu"; so when the
   dominant tag is not "Nu" row 0 is the only header row. *)
C8_HeaderRows ==
    Composed =>
        /\ hdrows[1] = 0
        /\ \A a, b \in 1..Len(hdrows) : a < b => hdrows[a] < hdrows[b]
        /\ HeaderSet \subseteq 0..(Len(df) - 1)
        /\ \A r \in 1..(Len(df) - 1) :
              r \in HeaderSet <=>
                  (Dominant = "Nu" /\ Majority(TagsOfRow(r)) # "Nu")
        /\ Dominant # "Nu" => hdrows = <<0>>

\* a header row below row 0, a data row, and a row whose majority is a tie
C8_Witness ==
    /\ Composed
    /\ Len(hdrows) >= 2
    /\ DataRowSet # {}
    /\ \E r \in HeaderSet \ {0} :
          Count(TagsOfRow(r), "Nu") = Count(TagsOfRow(r), Majority(TagsOfRow(r)))

\* the header rows row i takes its labels from
UsedHeaders(i) ==
    LET hr == HeaderOffsets(hdrows, i)
    IN { i + hr[k] : k \in 1..Len(hr) }

\* the nearest block of header rows above row i
NearestBlock(i) ==
    LET top == CHOOSE h \in HeaderSet :
                   h < i /\ \A g \in HeaderSet : g < i => g <= h
    IN { r \in 0..top : \A q \in r..top : q \in HeaderSet }

\* t lists the values of vals once each, in the order vals first shows them
ListsOnce(t, vals) ==
    /\ { t[k] : k \in 1..Len(t) } = { vals[k] : k \in 1..Len(vals) }
    /\ \A a, b \in 1..Len(t) :
          a < b => (t[a] # t[b] /\ FirstAt(vals, t[a]) < FirstAt(vals, t[b]))

(* C9: the header rows a data row i takes its labels from are the maximal
   run of consecutive header rows that ends at the largest header row below
   i; that set is not empty and lies in 0 .. i-1; the header values of a
   column are listed from the top row down, each once. *)
C9_NearestHeaderBlock ==
    Composed =>
        \A i \in DataRowSet :
            /\ UsedHeaders(i) = NearestBlock(i)
            /\ UsedHeaders(i) # {}
            /\ UsedHeaders(i) \subseteq 0..(i - 1)
            /\ \A j \in 0..(Len(df[1]) - 1) :
                  ListsOnce(HeaderValues(df, i, j, HeaderOffsets(hdrows, i)),
                            [k \in 1..Cardinality(NearestBlock(i)) |->
                                df[Nth(NearestBlock(i), k) + 1][j + 1]])

\* a data row with a header row above it that is not in its block, below
\* another data row
C9_Witness ==
    /\ Composed
    /\ Cardinality(DataRowSet) >= 2
    /\ \E i \in DataRowSet :
          \E h \in HeaderSet : h < i /\ h \notin UsedHeaders(i)

(* C10 as stated: a data row whose cells are all empty adds no line, so
   every line of a data row is a non-empty string. *)
C10_EmptyRowDropped ==
    Composed =>
        /\ Len(lines) =
              Cardinality({ i \in DataRowSet :
                              \E c \in 1..Len(df[i + 1]) : df[i + 1][c] # <<>> })
        /\ \A k \in 1..Len(lines) : lines[k] # <<>>

----------------------------------------------------------------------------
(* The claims about a list. *)

\* an unordered list of one item: the text "A" and an unordered list of one
\* item, the text "B"
NestedAB ==
    List(<<"L", "1">>,
         <<ListItem(<<Paragraph(<<"A">>),
                      List(<<"L", "1">>,
                           <<ListItem(<<Paragraph(<<"B">>)>>)>>)>>)>>)

(* C5 as stated: the list NestedAB is formatted as the two lines "• A" and
   "  • B". *)
C5_NestedListLines ==
    (pc = "done" /\ list_element = NestedAB) =>
        list_texts = << <<"bullet", " ", "A">>,
                        <<" ", " ", "bullet", " ", "B">> >>

\* the item has a text somewhere below it
RECURSIVE HasText(_)
HasText(item) ==
    \E c \in 1..Len(item.kids) :
        IF item.kids[c].tag = "p"
        THEN strip(item.kids[c].text) # <<>>
        ELSE \E k \in 1..Len(item.kids[c].items) : HasText(item.kids[c].items[k])

\* the lines that start with a number: those of the items of a numbered
\* top list (a deeper or a continuation line starts with a space)
NumberedLines == SelectSeq(list_texts, LAMBDA t : t[1] \in Digit)

(* C6 as stated: an item without a text anywhere below it adds no line, and
   the items of a numbered list that add lines are numbered 1., 2., 3., ...
   in document order. *)
C6_NumberedInOrder ==
    (pc = "done" /\ IsNumbered(list_element.style)) =>
        LET with == { k \in 1..Len(list_element.items) :
                        HasText(list_element.items[k]) }
        IN /\ with = {} => list_texts = <<>>
           /\ Len(NumberedLines) = Cardinality(with)
           /\ \A k \in 1..Len(NumberedLines) :
                 SubSeq(NumberedLines[k], 1, Len(str(k)) + 1) = str(k) \o <<".">>

----------------------------------------------------------------------------
(* The claim about blockType. *)

\* the rules of `pattern` that match b
Matching(b) == { k \in 1..Len(pattern) : search(pattern[k].re, b) }

Text2024 == <<"2", "0", "2", "4">>

(* C4 as stated: a string that matches several rules gets the tag of the
   first of them in the order of `pattern`, and "2024" is tagged Date ("Dt")
   by the year-only rule, the second of the list. *)
C4_Original ==
    pc = "done" =>
        /\ \A k \in Matching(text) :
              (\A j \in Matching(text) : k <= j) => ty = pattern[k].n
        /\ text = Text2024 => (2 \in Matching(text) /\ ty = "Dt")

(* C4 amended: a string that matches several rules gets the tag of the first
   of them in the order of `pattern`; "2024" does not match the year-only
   rule, which asks for "nian" after the digits: its first match is the
   numeric rule, so it is tagged "Nu" (and not "Ca", which it also matches),
   while "2024nian" is tagged "Dt". *)
C4_FirstRuleWins ==
    pc = "done" =>
        /\ \A k \in Matching(text) :
              (\A j \in Matching(text) : k <= j) => ty = pattern[k].n
        /\ text = Text2024 =>
              (2 \notin Matching(text) /\ {8, 9} \subseteq Matching(text) /\ ty = "Nu")
        /\ text = Text2024 \o <<"nian">> => ty = "Dt"

C4_Witness ==
    /\ pc = "done"
    /\ text = Text2024
    /\ Cardinality(Matching(text)) > 1
    /\ ty = "Nu"

====
